---- MODULE Spec2Model ----
(***************************************************************************)
(* Model of the hybrid RAG/SQL agent: the LangGraph workflow built by      *)
(* agent/graph_hybrid.py (route_question, retrieve_docs, plan_constraints, *)
(* generate_sql, execute_sql, repair_loop, synthesize_answer and the edges *)
(* of build_graph), the BM25 top-k selection of agent/rag/retrieval.py,    *)
(* the store of agent/tools/sqlite_tool.py and the batch runner of         *)
(* run_agent_hybrid.py.                                                    *)
(*                                                                         *)
(* The request context is the LangGraph state: one channel per key of the  *)
(* AgentState TypedDict.  A node's return value is a partial update: every *)
(* key of it that is a channel overwrites the channel (a value of None     *)
(* included), every other key is dropped.                                  *)
(***************************************************************************)
EXTENDS Integers, Sequences, FiniteSets, TLC

\* ---------------------------------------------------------------- bounds
MaxBatch == 2
MaxChunksPerFile == 2
MaxScore == 1
MaxK == 4

\* ------------------------------------------------------ program constants
\* retrieve(query, k = 3)
DefaultK == 3
\* the literal 2 of repair_loop and of the repair edge
RepairCeiling == 2
\* the queries one request can send if every repair is used
MaxAttempts == RepairCeiling + 1

\* Python None, and the string "N/A" used by the runner
NoneVal == "<None>"
NotAvailable == <<"N/A">>
EmptyStr == ""
EmptySql == <<>>

\* Python truthiness of a str-or-None value
Truthy(v) == v # NoneVal /\ v # EmptyStr

\* dict.get(k, default)
Get(d, k, default) == IF k \in DOMAIN d THEN d[k] ELSE default

\* ------------------------------------------------------------- questions
\* A question is described by what the code tests of its text:
\*   top3  : the lowercased text contains "top 3 products by total revenue all-time"
\*   kw    : it contains one of "revenue", "sold", "customer", "category", "aov"
\*   exact : which of the literal questions of plan_constraints / generate_sql
\*           the stripped text is equal to ("none" when it is none of them)
Questions ==
  { [name |-> "top3_revenue",     top3 |-> TRUE,  kw |-> TRUE,  exact |-> "none"],
    [name |-> "summer_qty",       top3 |-> FALSE, kw |-> TRUE,  exact |-> "summer_qty"],
    [name |-> "aov_winter",       top3 |-> FALSE, kw |-> TRUE,  exact |-> "aov_winter"],
    [name |-> "revenue_beverages",top3 |-> FALSE, kw |-> TRUE,  exact |-> "revenue_beverages"],
    [name |-> "customer_margin",  top3 |-> FALSE, kw |-> TRUE,  exact |-> "customer_margin"],
    [name |-> "other_customer",   top3 |-> FALSE, kw |-> TRUE,  exact |-> "none"],
    [name |-> "return_window",    top3 |-> FALSE, kw |-> FALSE, exact |-> "none"] }

\* ---------------------------------------------------------------- channels
AgentState ==
  {"question", "route", "sql_query", "sql_result", "retrieved_docs",
   "final_answer", "citations", "repair_count", "error"}

\* sql_result before any execution: run_agent passes the empty string
NoResult == [kind |-> "empty_str"]

\* the channels after run_agent's initial_state has been read: the keys of
\* initial_state that are not channels are ignored, final_answer and
\* citations are not given (state.get returns None / the default for them)
InitialState(q) ==
  [question |-> q, route |-> EmptyStr, sql_query |-> EmptySql,
   sql_result |-> NoResult, retrieved_docs |-> <<>>,
   final_answer |-> NoneVal, citations |-> <<>>,
   repair_count |-> 0, error |-> EmptyStr]

\* merge of a node's return value into the channels
Merge(s, upd) == [k \in AgentState |-> IF k \in DOMAIN upd THEN upd[k] ELSE s[k]]

\* s with extra keys / overwritten keys (a Python dict mutated in place)
With(s, upd) == [k \in (DOMAIN s) \cup (DOMAIN upd) |-> IF k \in DOMAIN upd THEN upd[k] ELSE s[k]]

\* --------------------------------------------------------------- retrieval
\* the markdown files of the docs directory, in glob order
Files == <<"product_policy", "kpi_definitions">>

\* the set of function values  [1..Len(Files) -> 0..MaxChunksPerFile]:
\* how many non-blank paragraphs each file has
Corpora == [1..Len(Files) -> 0..MaxChunksPerFile]

\* the chunks of one file: enumerate(chunks), ids "<filename>::chunk<i>"
RECURSIVE ChunksOf(_, _, _)
ChunksOf(filename, i, n) ==
  IF i >= n THEN <<>>
  ELSE <<[id |-> filename \o "::chunk" \o ToString(i),
          content |-> <<filename, i>>,
          source |-> filename]>> \o ChunksOf(filename, i + 1, n)

RECURSIVE LoadFrom(_, _)
LoadFrom(counts, f) ==
  IF f > Len(Files) THEN <<>>
  ELSE ChunksOf(Files[f], 0, counts[f]) \o LoadFrom(counts, f + 1)

\* DocumentRetriever._load_and_chunk_docs
LoadAndChunkDocs(counts) == LoadFrom(counts, 1)

\* DocumentRetriever.__init__: bm25 is None when the corpus is empty
Bm25IsNone(documents) == Len(documents) = 0

\* numpy argsort of a small array: ascending, equal scores in index order
ArgSort(scores) ==
  LET n == Len(scores)
      Rank(i) == 1 + Cardinality({j \in 1..n : \/ scores[j] < scores[i]
                                               \/ scores[j] = scores[i] /\ j < i})
  IN [p \in 1..n |-> CHOOSE i \in 1..n : Rank(i) = p]

\* a[-k:] of Python: the last k elements, and the whole of a when k = 0
\* (a[-0:] is a[0:]) or when k >= len(a)
LastK(a, k) ==
  IF k = 0 \/ k >= Len(a) THEN a ELSE SubSeq(a, Len(a) - k + 1, Len(a))

\* a[::-1]
Reverse(a) == [i \in 1..Len(a) |-> a[Len(a) + 1 - i]]

\* scores.argsort()[-k:][::-1]
TopIndices(scores, k) == Reverse(LastK(ArgSort(scores), k))

\* DocumentRetriever.retrieve
Retrieve(documents, scores, k) ==
  IF Bm25IsNone(documents) THEN <<>>
  ELSE LET top == TopIndices(scores, k)
       IN [j \in 1..Len(top) |->
             [id |-> documents[top[j]].id,
              content |-> documents[top[j]].content,
              score |-> scores[top[j]]]]

\* DocumentRetriever.__init__ over a directory whose files have counts
\* paragraphs: the retriever's fields
DocumentRetriever(counts) ==
  LET documents == LoadAndChunkDocs(counts)
  IN [documents |-> documents,
      bm25 |-> IF Bm25IsNone(documents) THEN NoneVal ELSE "BM25Okapi"]

\* retrieve without the test of self.bm25: get_scores is called on None
DocumentRetriever_retrieve_unguarded(retriever, scores, k) ==
  IF retriever.bm25 = NoneVal
  THEN [raised |-> TRUE, result |-> <<>>]
  ELSE [raised |-> FALSE, result |-> Retrieve(retriever.documents, scores, k)]

\* DocumentRetriever.retrieve as a call: whether it raised, and what it returned
DocumentRetriever_retrieve(retriever, scores, k) ==
  IF retriever.bm25 = NoneVal
  THEN [raised |-> FALSE, result |-> <<>>]
  ELSE [raised |-> FALSE, result |-> Retrieve(retriever.documents, scores, k)]

\* -------------------------------------------------------------------- store
\* SQLiteTool.execute_query: the result of a query that ran, and of one
\* that sqlite3 rejected (sqlite3.Error is caught)
OkResult(q) == [kind |-> "result", columns |-> <<"col">>, rows |-> <<q>>, error |-> NoneVal]
ErrResult == [kind |-> "result", columns |-> <<>>, rows |-> <<>>, error |-> "sqlite3.Error"]

\* what the store does with the i-th query of a request:
\*   "ok"   the query runs
\*   "err"  cursor.execute raises sqlite3.Error (caught by execute_query)
\* A request stops sending queries at the first one that runs, so a plan is
\* given by the number of queries the store rejects before it runs one.
StoreOutcomes == {"ok", "err"}
StorePlans ==
  {[i \in 1..MaxAttempts |-> IF i <= f THEN "err" ELSE "ok"] : f \in 0..MaxAttempts}

\* ------------------------------------------------------------------- nodes
EmptyDict == <<>>

\* the routing rule with the keyword test made before the literal test
RouteOf_keyword_first(q) == IF q.kw THEN "hybrid" ELSE IF q.top3 THEN "sql" ELSE "rag"

\* route_question: the routing rule
RouteOf(q) == IF q.top3 THEN "sql" ELSE IF q.kw THEN "hybrid" ELSE "rag"

\* route_question returns the state it was given, with route set
route_question(s) == With(s, [route |-> RouteOf(s.question)])

\* retrieve_docs that falls back to the documents-only route when nothing
\* was retrieved
retrieve_docs_reroutes(s, documents, scores) ==
  LET retrieved_docs == Retrieve(documents, scores, DefaultK)
      citations == [i \in 1..Len(retrieved_docs) |-> retrieved_docs[i].id]
  IN With(s, [retrieved_docs |-> retrieved_docs, citations |-> citations,
              route |-> IF Len(retrieved_docs) = 0 THEN "rag" ELSE s.route])

\* retrieve_docs returns the state it was given, with retrieved_docs and
\* citations set; the retriever is built anew from the docs directory
retrieve_docs(s, documents, scores) ==
  LET retrieved_docs == Retrieve(documents, scores, DefaultK)
      citations == [i \in 1..Len(retrieved_docs) |-> retrieved_docs[i].id]
  IN With(s, [retrieved_docs |-> retrieved_docs, citations |-> citations])

\* what can throw inside retrieve_docs: nothing, the loading of the
\* directory or the building of the ranking object ("indexing"), the
\* tokenizing and scoring of the query ("scoring")
RetrievalFailures == {"none", "indexing", "scoring"}

\* the scores a query can give the documents; none are computed when
\* something throws
ScoresOf(documents, failure) ==
  IF failure = "none" THEN [1..Len(documents) -> 0..MaxScore] ELSE {<<>>}

\* retrieve_docs without its try: an exception of retrieve leaves the stage
retrieve_docs_call_unguarded(s, documents, scores, failure) ==
  IF failure = "scoring"
  THEN [raised |-> TRUE, update |-> s]
  ELSE [raised |-> FALSE,
        update |-> retrieve_docs(s, IF failure = "indexing" THEN <<>> ELSE documents, scores)]

\* retrieve_docs as a call, documents being what the directory holds:
\* __init__ catches an exception of indexing and leaves the retriever empty,
\* the try of retrieve_docs turns an exception of retrieve into []
retrieve_docs_call(s, documents, scores, failure) ==
  IF failure = "scoring"
  THEN [raised |-> FALSE, update |-> With(s, [retrieved_docs |-> <<>>, citations |-> <<>>])]
  ELSE [raised |-> FALSE,
        update |-> retrieve_docs(s, IF failure = "indexing" THEN <<>> ELSE documents, scores)]

\* the constraints of plan_constraints
PlannedConstraints(q) ==
  CASE q.exact = "summer_qty" ->
         [start_date |-> "1997-07-01", end_date |-> "1997-09-30",
          category |-> NoneVal, kpi |-> "quantity_sold"]
    [] q.exact = "aov_winter" ->
         [start_date |-> "1997-12-01", end_date |-> "1997-12-31",
          category |-> NoneVal, kpi |-> "average_order_value"]
    [] q.exact = "customer_margin" ->
         [start_date |-> "1997-01-01", end_date |-> "1997-12-31",
          category |-> NoneVal, kpi |-> "gross_margin"]
    [] OTHER -> EmptyDict

\* plan_constraints returns the state it was given with the key
\* "constraints" added; "constraints" is not a key of AgentState
plan_constraints(s) == With(s, [constraints |-> PlannedConstraints(s.question)])

\* the questions whose SQL template reads constraints["start_date"] and
\* constraints["end_date"]
ReadsDates(q) == q.exact \in {"summer_qty", "aov_winter", "revenue_beverages"}

\* generate_sql raises KeyError: a template subscripts a key the constraints
\* mapping does not have
GenerateSqlKeyError(s) ==
  LET constraints == Get(s, "constraints", EmptyDict)
  IN /\ ~s.question.top3
     /\ ReadsDates(s.question)
     /\ ~({"start_date", "end_date"} \subseteq DOMAIN constraints)

\* the query text, as the template chosen and the values put into it
SqlFor(q, constraints) ==
  CASE q.top3 -> <<"top3_products_by_revenue">>
    [] ~q.top3 /\ q.exact = "summer_qty" ->
         <<"top_category_by_quantity", constraints["start_date"], constraints["end_date"]>>
    [] ~q.top3 /\ q.exact = "aov_winter" ->
         <<"average_order_value", constraints["start_date"], constraints["end_date"]>>
    [] ~q.top3 /\ q.exact = "revenue_beverages" ->
         <<"beverages_revenue", constraints["start_date"], constraints["end_date"]>>
    [] ~q.top3 /\ q.exact = "customer_margin" -> <<"top_customer_by_margin_1997">>
    [] OTHER -> <<"SELECT * FROM Orders LIMIT 1;">>

\* the tables named after FROM and JOIN in the query text
TablesRead(sql) ==
  CASE sql = EmptySql -> {}
    [] sql # EmptySql /\ sql[1] = "top3_products_by_revenue" -> {"Products", "Order Details"}
    [] sql # EmptySql /\ sql[1] \in {"top_category_by_quantity", "beverages_revenue"} ->
         {"Categories", "Products", "Order Details", "Orders"}
    [] sql # EmptySql /\ sql[1] = "average_order_value" -> {"Orders", "Order Details"}
    [] sql # EmptySql /\ sql[1] = "top_customer_by_margin_1997" ->
         {"Customers", "Orders", "Order Details"}
    [] OTHER -> {"Orders"}

\* generate_sql (when it does not raise)
generate_sql(s) ==
  [sql_query |-> SqlFor(s.question, Get(s, "constraints", EmptyDict))]

\* SQLiteTool.execute_query (when sqlite3.connect does not raise)
execute_query(query, outcome) == IF outcome = "err" THEN ErrResult ELSE OkResult(query)

\* the statements execute_query can be given and what can happen to each:
\*   "runs"          the statement runs and has a result set
\*   "no_result_set" the statement runs and cursor.description is None
\*   "sqlite_error"  cursor.execute raises sqlite3.Error
\*   "connect_fails" sqlite3.connect raises
StoreCalls ==
  {<<"SELECT * FROM Orders LIMIT 1;">>} \X {"runs", "sqlite_error", "connect_fails"}
    \cup {<<"SELEC * FROM">>} \X {"sqlite_error", "connect_fails"}
    \cup {<<"DELETE FROM Orders;">>} \X {"no_result_set", "sqlite_error", "connect_fails"}

\* SQLiteTool.execute_query as a call: sqlite3.connect is outside the try,
\* iterating cursor.description = None raises TypeError, and the except
\* clause catches sqlite3.Error only
SQLiteTool_execute_query(query, event) ==
  CASE event = "connect_fails" -> [raised |-> TRUE, exc |-> "sqlite3.OperationalError"]
    [] event = "no_result_set" -> [raised |-> TRUE, exc |-> "TypeError"]
    [] event = "sqlite_error" -> [raised |-> FALSE, result |-> execute_query(query, "err")]
    [] OTHER -> [raised |-> FALSE, result |-> execute_query(query, "ok")]

\* execute_sql that cites the tables without keeping the citations it found
execute_sql_overwrites(s, outcome) ==
  LET sql_result == execute_query(s.sql_query, outcome)
  IN IF Truthy(sql_result.error)
     THEN [sql_result |-> sql_result, error |-> sql_result.error]
     ELSE [sql_result |-> sql_result, citations |-> <<"Orders", "Customers">>]

\* execute_sql (when execute_query does not raise)
execute_sql(s, outcome) ==
  LET sql_result == execute_query(s.sql_query, outcome)
  IN IF Truthy(sql_result.error)
     THEN [sql_result |-> sql_result, error |-> sql_result.error]
     ELSE [sql_result |-> sql_result,
           citations |-> Get(s, "citations", <<>>) \o <<"Orders", "Customers">>]

SqlAnswer == "Based on the data, the answer is: SQL Result. (Mock Synthesis)"
SqlErrorAnswer == "Error: Could not execute SQL query."
DocsAnswer == "Based on the retrieved documents, the answer is: docs. (Mock Synthesis)"
RepairExhaustedAnswer == "Error: Could not resolve the question after 2 repair attempts."

\* synthesize_answer
synthesize_answer(s) ==
  IF s.sql_result # NoResult
  THEN IF Truthy(s.sql_result.error)
       THEN [final_answer |-> SqlErrorAnswer]
       ELSE [final_answer |-> SqlAnswer]
  ELSE [final_answer |-> DocsAnswer]

\* repair_loop that leaves error set on the repair path
repair_loop_keeps_error(s) ==
  LET repair_count == Get(s, "repair_count", 0) + 1
  IN IF Truthy(Get(s, "error", NoneVal)) /\ repair_count <= RepairCeiling
     THEN [repair_count |-> repair_count]
     ELSE IF Truthy(Get(s, "error", NoneVal))
          THEN [repair_count |-> repair_count, final_answer |-> RepairExhaustedAnswer]
          ELSE s

\* repair_loop
repair_loop(s) ==
  LET repair_count == Get(s, "repair_count", 0) + 1
  IN IF Truthy(Get(s, "error", NoneVal)) /\ repair_count <= RepairCeiling
     THEN [repair_count |-> repair_count, error |-> NoneVal]
     ELSE IF Truthy(Get(s, "error", NoneVal))
          THEN [repair_count |-> repair_count, final_answer |-> RepairExhaustedAnswer]
          ELSE s

\* ------------------------------------------------------------------- edges
\* the conditional edge after route_question: lambda state: state["route"]
decide_post_route(s) == s.route

\* decide_post_retrieve with its two routes exchanged
decide_post_retrieve_exchanged(s) ==
  IF s.route = "hybrid" THEN "synthesize_answer"
  ELSE IF s.route = "rag" THEN "plan_constraints"
  ELSE "fail"

decide_post_retrieve(s) ==
  IF s.route = "rag" THEN "synthesize_answer"
  ELSE IF s.route = "hybrid" THEN "plan_constraints"
  ELSE "fail"

\* decide_post_execute that does not look at error
decide_post_execute_ignores_error(s) == "synthesize_answer"

decide_post_execute(s) ==
  IF Truthy(Get(s, "error", NoneVal)) THEN "repair_loop" ELSE "synthesize_answer"

\* the conditional edge after repair_loop
decide_post_repair(s) ==
  IF Get(s, "repair_count", 0) <= RepairCeiling /\ Truthy(Get(s, "error", NoneVal))
  THEN "generate_sql" ELSE "END"

\* the edge tables of build_graph
RouteEdges ==
  [rag |-> "retrieve_docs", sql |-> "generate_sql", hybrid |-> "retrieve_docs", fail |-> "END"]
PostRetrieveEdges ==
  [synthesize_answer |-> "synthesize_answer", plan_constraints |-> "plan_constraints", fail |-> "END"]
\* the edge table after execute_sql with the success edge led back to the
\* entry stage
PostExecuteEdges_back_to_entry ==
  [repair_loop |-> "repair_loop", synthesize_answer |-> "route_question"]

PostExecuteEdges ==
  [repair_loop |-> "repair_loop", synthesize_answer |-> "synthesize_answer"]
PostRepairEdges == [generate_sql |-> "generate_sql", END |-> "END"]

\* a conditional edge: the stage the table gives for the value, a raised
\* error of the engine when the table has no entry for it
Follow(table, value) == IF value \in DOMAIN table THEN table[value] ELSE "raised"

\* the stages an edge of build_graph leads to from a stage
Targets(table) == {table[value] : value \in DOMAIN table}
Successors(stage) ==
  CASE stage = "route_question" -> Targets(RouteEdges)
    [] stage = "retrieve_docs" -> Targets(PostRetrieveEdges)
    [] stage = "plan_constraints" -> {"generate_sql"}
    [] stage = "generate_sql" -> {"execute_sql"}
    [] stage = "execute_sql" -> Targets(PostExecuteEdges)
    [] stage = "repair_loop" -> Targets(PostRepairEdges)
    [] stage = "synthesize_answer" -> {"END"}
    [] OTHER -> {}

\* the stages reachable from a set of stages along the edges
RECURSIVE Closure(_)
Closure(S) ==
  LET T == S \cup UNION {Successors(x) : x \in S}
  IN IF T = S THEN S ELSE Closure(T)

\* ------------------------------------------------------------------ runner
Stages ==
  {"route_question", "retrieve_docs", "plan_constraints", "generate_sql",
   "execute_sql", "repair_loop", "synthesize_answer"}

\* the record of run_agent: final_state is the last value the stream gave
RunAgentRecord(question_data, fs, raised, exc) ==
  LET sql == IF "is_none" \in DOMAIN fs THEN NotAvailable
             ELSE Get(fs, "sql_query", NotAvailable)
      final_output == Get(fs, "final_output", NoneVal)
  IN IF raised
     THEN [id |-> question_data.id,
           final_answer |-> "CRITICAL ERROR: " \o exc,
           sql |-> sql, confidence |-> 0,
           explanation |-> "Critical error during graph execution.",
           citations |-> <<>>]
     ELSE IF final_output = NoneVal
          THEN [id |-> question_data.id,
                final_answer |-> "ERROR: Agent failed to produce a final output.",
                sql |-> sql, confidence |-> 0,
                explanation |-> "Agent failed to complete the task.",
                citations |-> <<>>]
          ELSE [id |-> question_data.id,
                final_answer |-> final_output.final_answer,
                sql |-> sql, confidence |-> final_output.confidence,
                explanation |-> final_output.explanation,
                citations |-> final_output.citations]

VARIABLES
  batch,         \* the input records, in file order
  idx,           \* the record main's loop is at
  results,       \* main's results list
  out_file,      \* the --out file: whether it was written, and its lines
  pc,            \* the stage the workflow is at: a stage, "END", "raised", "idle"
  state,         \* the channels of the request
  final_state,   \* run_agent's final_state
  exception,     \* the exception that left the stream, if any
  store,         \* what the store does on each attempt of the request
  steps,         \* the stages run so far in the request, in order
  end_chunk,     \* the installed engine streams a last {"__end__": state} chunk
  unit           \* the last call of a component made on its own, outside a request

vars == <<batch, idx, results, out_file, pc, state, final_state, exception,
          store, steps, end_chunk, unit>>

NoFinalState == [is_none |-> TRUE]
NoUnit == [op |-> "none"]
NotWritten == [written |-> FALSE, lines |-> <<>>]

QuestionData(i, q) == [id |-> "q" \o ToString(i), question |-> q, format_hint |-> "str"]

\* between requests no request context exists
IdleState == InitialState(CHOOSE q \in Questions : q.name = "return_window")
IdleStore == [i \in 1..MaxAttempts |-> "ok"]

\* the batch files of up to MaxBatch records over the questions qs
Batches(qs) ==
  UNION {[1..n -> qs] : n \in 1..MaxBatch}

\* the questions of the batch runs, one per route: sql (its stream ends or
\* raises with the store), hybrid (generation raises) and documents only
BatchQuestions ==
  {q \in Questions : q.name \in {"top3_revenue", "revenue_beverages", "return_window"}}

\* the runner has loaded the batch file b
Loaded(b) ==
  /\ batch = [i \in 1..Len(b) |-> QuestionData(i, b[i])]
  /\ end_chunk \in BOOLEAN
  /\ idx = 1
  /\ results = <<>>
  /\ out_file = NotWritten
  /\ pc = "idle"
  /\ state = IdleState
  /\ final_state = NoFinalState
  /\ exception = NoneVal
  /\ store = IdleStore
  /\ steps = <<>>
  /\ unit = NoUnit

\* The states below are those of main's loop over a compiled graph.  (As
\* written, run_agent_hybrid.py imports NLtoSQL from agent.graph_hybrid and
\* calls build_graph with two arguments; graph_hybrid.py defines no NLtoSQL
\* and build_graph takes one, so the script stops before it reads a batch.)

\* a batch file of one record, over every question
Init == \E q \in Questions : Loaded(<<q>>)

\* a batch file of up to MaxBatch records
BatchInit == \E b \in Batches(BatchQuestions) : Loaded(b)

\* the attempt number of the next generate_sql / execute_sql
Count(stage) == Cardinality({i \in 1..Len(steps) : steps[i] = stage})
Attempt(stage) == Count(stage) + 1
Outcome(stage) == IF Attempt(stage) <= MaxAttempts THEN store[Attempt(stage)] ELSE "ok"

\* a stage ran: its return value upd is merged into the channels, the
\* conditional or plain edge gives the next stage, the stream yields upd
\* (and, at the end node, the legacy last chunk with the whole state)
Ran(stage, upd, next) ==
  /\ state' = Merge(state, upd)
  /\ pc' = next
  /\ steps' = Append(steps, stage)
  /\ final_state' = IF next = "END" /\ end_chunk THEN Merge(state, upd)
                    ELSE [k \in (DOMAIN upd) \cap AgentState |-> upd[k]]
  /\ exception' = IF next = "raised" THEN "KeyError: unmapped edge value" ELSE exception
  /\ UNCHANGED <<batch, idx, results, out_file, store, end_chunk, unit>>

\* a stage raised: the stream ends with the exception
Raised(stage, exc) ==
  /\ pc' = "raised"
  /\ steps' = Append(steps, stage)
  /\ exception' = exc
  /\ UNCHANGED <<batch, idx, results, out_file, state, final_state, store, end_chunk, unit>>

\* main's loop calls run_agent, which builds initial_state and starts the stream
StartRequest ==
  /\ pc = "idle"
  /\ idx <= Len(batch)
  /\ state' = InitialState(batch[idx].question)
  /\ pc' = "route_question"
  /\ final_state' = NoFinalState
  /\ exception' = NoneVal
  /\ store' \in StorePlans
  /\ steps' = <<>>
  /\ UNCHANGED <<batch, idx, results, out_file, end_chunk, unit>>

RouteQuestion ==
  /\ pc = "route_question"
  /\ LET upd == route_question(state)
     IN Ran("route_question", upd, Follow(RouteEdges, decide_post_route(Merge(state, upd))))

RetrieveDocs ==
  /\ pc = "retrieve_docs"
  /\ \E counts \in Corpora :
       LET documents == LoadAndChunkDocs(counts)
       IN \E failure \in RetrievalFailures :
          \E scores \in ScoresOf(documents, failure) :
            LET call == retrieve_docs_call(state, documents, scores, failure)
                upd == call.update
            IN IF failure # "none" /\ call.raised
               THEN Raised("retrieve_docs", "Exception")
               ELSE Ran("retrieve_docs", upd,
                        Follow(PostRetrieveEdges, decide_post_retrieve(Merge(state, upd))))

PlanConstraints ==
  /\ pc = "plan_constraints"
  /\ Ran("plan_constraints", plan_constraints(state), "generate_sql")

GenerateSql ==
  /\ pc = "generate_sql"
  /\ ~GenerateSqlKeyError(state)
  /\ Ran("generate_sql", generate_sql(state), "execute_sql")

\* generate_sql raises KeyError while it formats its template
GenerateSqlKeyFails ==
  /\ pc = "generate_sql"
  /\ GenerateSqlKeyError(state)
  /\ Raised("generate_sql", "KeyError: 'start_date'")

\* SQLiteTool.get_schema has no try: a failure of sqlite3.connect or of its
\* queries leaves generate_sql as an exception
GenerateSqlSchemaFails ==
  /\ pc = "generate_sql"
  /\ Raised("generate_sql", "sqlite3.OperationalError")

\* execute_sql that adds the table names whatever the result
ExecuteSql_cites_always ==
  /\ pc = "execute_sql"
  /\ LET upd == With(execute_sql(state, Outcome("execute_sql")),
                     [citations |-> Get(state, "citations", <<>>) \o <<"Orders", "Customers">>])
     IN Ran("execute_sql", upd, Follow(PostExecuteEdges, decide_post_execute(Merge(state, upd))))

ExecuteSql ==
  /\ pc = "execute_sql"
  /\ LET upd == execute_sql(state, Outcome("execute_sql"))
     IN Ran("execute_sql", upd, Follow(PostExecuteEdges, decide_post_execute(Merge(state, upd))))

\* sqlite3.connect is called before execute_query's try: its failure leaves
\* execute_sql as an exception
ExecuteSqlConnectFails ==
  /\ pc = "execute_sql"
  /\ Raised("execute_sql", "sqlite3.OperationalError")

RepairLoop ==
  /\ pc = "repair_loop"
  /\ LET upd == repair_loop(state)
     IN Ran("repair_loop", upd, Follow(PostRepairEdges, decide_post_repair(Merge(state, upd))))

SynthesizeAnswer ==
  /\ pc = "synthesize_answer"
  /\ Ran("synthesize_answer", synthesize_answer(state), "END")

\* a runner that gives no record for a request whose stream raised
FinishRequest_drops ==
  /\ pc \in {"END", "raised"}
  /\ results' = IF pc = "raised" THEN results
                ELSE Append(results, RunAgentRecord(batch[idx], final_state, FALSE, exception))
  /\ idx' = idx + 1
  /\ pc' = "idle"
  /\ state' = IdleState
  /\ final_state' = NoFinalState
  /\ exception' = NoneVal
  /\ store' = IdleStore
  /\ steps' = <<>>
  /\ UNCHANGED <<batch, out_file, end_chunk, unit>>

\* the stream is over (ended or raised): run_agent returns its record and
\* main appends it to results
FinishRequest ==
  /\ pc \in {"END", "raised"}
  /\ results' = Append(results,
                  RunAgentRecord(batch[idx], final_state, pc = "raised", exception))
  /\ idx' = idx + 1
  /\ pc' = "idle"
  /\ state' = IdleState
  /\ final_state' = NoFinalState
  /\ exception' = NoneVal
  /\ store' = IdleStore
  /\ steps' = <<>>
  /\ UNCHANGED <<batch, out_file, end_chunk, unit>>

\* main writes one line per result
WriteOutput ==
  /\ pc = "idle"
  /\ idx > Len(batch)
  /\ ~out_file.written
  /\ out_file' = [written |-> TRUE, lines |-> results]
  /\ UNCHANGED <<batch, idx, results, pc, state, final_state, exception, store, steps, end_chunk, unit>>

Next ==
  \/ StartRequest
  \/ RouteQuestion
  \/ RetrieveDocs
  \/ PlanConstraints
  \/ GenerateSql
  \/ GenerateSqlKeyFails
  \/ GenerateSqlSchemaFails
  \/ ExecuteSql
  \/ ExecuteSqlConnectFails
  \/ RepairLoop
  \/ SynthesizeAnswer
  \/ FinishRequest
  \/ WriteOutput

\* one request, any question
Spec == Init /\ [][Next]_vars

\* a batch run
BatchSpec == BatchInit /\ [][Next]_vars

\* ----------------------------------------------------- components on their own
\* a retriever is built over a docs directory
BuildIndex ==
  /\ \E counts \in Corpora :
       unit' = [op |-> "build", retriever |-> DocumentRetriever(counts)]
  /\ UNCHANGED <<batch, idx, results, out_file, pc, state, final_state, exception,
                 store, steps, end_chunk>>

\* retrieve(query, k) is called on the retriever just built (retrieve_docs
\* builds a retriever for each call); the query gives the scores
RetrieveCall ==
  /\ unit.op = "build"
  /\ \E scores \in [1..Len(unit.retriever.documents) -> 0..MaxScore], k \in 0..MaxK :
       LET call == DocumentRetriever_retrieve(unit.retriever, scores, k)
       IN unit' = [op |-> "retrieve", retriever |-> unit.retriever, scores |-> scores,
                   k |-> k, raised |-> call.raised, result |-> call.result]
  /\ UNCHANGED <<batch, idx, results, out_file, pc, state, final_state, exception,
                 store, steps, end_chunk>>

\* the second call sees the directory read again in the opposite order
RetrieveAgain_rebuilds ==
  /\ unit.op = "retrieve"
  /\ LET documents == Reverse(unit.retriever.documents)
         call == DocumentRetriever_retrieve([unit.retriever EXCEPT !.documents = documents],
                                            Reverse(unit.scores), unit.k)
     IN unit' = [op |-> "retrieve_again", retriever |-> unit.retriever,
                 scores |-> unit.scores, k |-> unit.k, first |-> unit.result,
                 raised |-> call.raised, result |-> call.result]
  /\ UNCHANGED <<batch, idx, results, out_file, pc, state, final_state, exception,
                 store, steps, end_chunk>>

\* retrieve is called a second time on the same retriever with the same
\* query (the same scores) and the same k
RetrieveAgain ==
  /\ unit.op = "retrieve"
  /\ LET call == DocumentRetriever_retrieve(unit.retriever, unit.scores, unit.k)
     IN unit' = [op |-> "retrieve_again", retriever |-> unit.retriever,
                 scores |-> unit.scores, k |-> unit.k, first |-> unit.result,
                 raised |-> call.raised, result |-> call.result]
  /\ UNCHANGED <<batch, idx, results, out_file, pc, state, final_state, exception,
                 store, steps, end_chunk>>

\* retrieve_docs is called, over the directory just indexed, on the context
\* route_question leaves for a question that is routed to it, and the edge
\* after it is resolved
RetrieveDocsCall ==
  /\ unit.op = "build"
  /\ \E q \in {x \in Questions : RouteOf(x) \in {"rag", "hybrid"}},
        failure \in RetrievalFailures :
     \E scores \in ScoresOf(unit.retriever.documents, failure) :
       LET s == route_question(InitialState(q))
           call == retrieve_docs_call(s, unit.retriever.documents, scores, failure)
       IN unit' = [op |-> "retrieve_docs", context |-> s, failure |-> failure,
                   raised |-> call.raised, update |-> call.update,
                   next |-> IF call.raised THEN "raised"
                            ELSE Follow(PostRetrieveEdges,
                                        decide_post_retrieve(Merge(s, call.update)))]
  /\ UNCHANGED <<batch, idx, results, out_file, pc, state, final_state, exception,
                 store, steps, end_chunk>>

\* execute_query is called with a statement
ExecuteQueryCall ==
  /\ \E c \in StoreCalls :
       unit' = [op |-> "execute_query", query |-> c[1], event |-> c[2],
                call |-> SQLiteTool_execute_query(c[1], c[2])]
  /\ UNCHANGED <<batch, idx, results, out_file, pc, state, final_state, exception,
                 store, steps, end_chunk>>

\* the engine resolves the conditional edge after retrieve_docs for a
\* context with the given route
ResolvePostRetrieve ==
  /\ \E q \in Questions, route \in {"rag", "sql", "hybrid", EmptyStr} :
       LET s == With(InitialState(q), [route |-> route])
           value == decide_post_retrieve(s)
       IN unit' = [op |-> "post_retrieve", context |-> s, value |-> value,
                   next |-> Follow(PostRetrieveEdges, value)]
  /\ UNCHANGED <<batch, idx, results, out_file, pc, state, final_state, exception,
                 store, steps, end_chunk>>

\* generate_sql is called on a context that holds the mapping plan_constraints
\* returns for some question (the schema being readable)
GenerateSqlCall ==
  /\ \E q \in Questions, planned \in Questions :
       LET s == With(InitialState(q), [route |-> RouteOf(q),
                                       constraints |-> PlannedConstraints(planned)])
           fails == GenerateSqlKeyError(s)
       IN unit' = [op |-> "generate_sql", context |-> s, raised |-> fails,
                   update |-> IF fails THEN EmptyDict ELSE generate_sql(s)]
  /\ UNCHANGED <<batch, idx, results, out_file, pc, state, final_state, exception,
                 store, steps, end_chunk>>

UnitInit == Loaded(<<>>)

UnitNext ==
  \/ BuildIndex
  \/ RetrieveCall
  \/ RetrieveAgain
  \/ RetrieveDocsCall
  \/ ExecuteQueryCall
  \/ ResolvePostRetrieve
  \/ GenerateSqlCall

\* the components called on their own
UnitSpec == UnitInit /\ [][UnitNext]_vars

\* ------------------------------------------------------------------ claims
Range(seq) == {seq[i] : i \in 1..Len(seq)}
Routes == {"rag", "sql", "hybrid"}
TableNames == {"Orders", "Customers"}
Ended == pc = "END"
Executed == Count("execute_sql") > 0

\* C1: for a request started with repair_count = 0, repair_count never
\* exceeds the ceiling 2, whatever the Query Executor returns.
C1_RepairCountBounded == state.repair_count <= RepairCeiling

\* C1 witness: the Repair Controller has run on an executor error and has
\* counted it.
C1_Witness ==
  /\ Count("repair_loop") > 0
  /\ store[1] = "err"
  /\ state.repair_count = 1

\* C2: every request's workflow reaches the end node (its stream never
\* stops short of it), and generate_sql runs at most ceiling + 1 = 3 times
\* in one request.
C2_ReachesEndWithinThreeGenerations ==
  /\ pc # "raised"
  /\ Count("generate_sql") <= RepairCeiling + 1

\* C3: final_answer is null in every state before the workflow reaches its
\* end node and non-null in every state in which the workflow has ended.
C3_FinalAnswerExactlyAtEnd ==
  /\ pc \in Stages => state.final_answer = NoneVal
  /\ Ended => state.final_answer # NoneVal

\* C4: when the Repair Controller runs with error set and repair_count < 2,
\* it increments repair_count, clears error, and the next stage is
\* generate_sql.
C4_RepairGoesBackToGenerator ==
  [][(pc = "repair_loop" /\ Truthy(state.error) /\ state.repair_count < RepairCeiling)
       => /\ state'.repair_count = state.repair_count + 1
          /\ ~Truthy(state'.error)
          /\ pc' = "generate_sql"]_vars

\* C5: if the Query Executor fails the first query of a request and runs
\* the second, the workflow ends with error null, the Synthesizer's answer
\* and repair_count = 1.
C5_ErrorThenSuccess ==
  (Ended /\ Executed /\ store[1] = "err" /\ store[2] = "ok")
    => /\ ~Truthy(state.error)
       /\ state.final_answer = SqlAnswer
       /\ state.repair_count = 1

\* C6: if the Query Executor fails every query of a request, the workflow
\* ends with the exhausted-repair message as final_answer and with
\* repair_count = 2.
C6_ErrorOnEveryAttempt ==
  (Ended /\ Executed /\ \A i \in 1..MaxAttempts : store[i] = "err")
    => /\ state.final_answer = RepairExhaustedAnswer
       /\ state.repair_count = RepairCeiling

\* C7: route is set once, by route_question, and no later stage changes it.
C7_RouteWriteOnce ==
  [][/\ pc = "route_question" => (state.route = EmptyStr /\ state'.route \in Routes)
     /\ pc \in Stages \ {"route_question"}
          => (state.route \in Routes /\ state'.route = state.route)]_vars

\* C7 witness: a hybrid request has gone through retrieval, constraint
\* planning, generation and execution and has ended with its route.
C7_Witness ==
  /\ Ended
  /\ state.route = "hybrid"
  /\ Count("plan_constraints") > 0
  /\ Executed

\* C8: citations never shrinks within a request: after every stage the set
\* of citations is a superset of the set before it.
C8_CitationsNeverShrink ==
  [][(pc \in Stages)
       => (Range(state.citations) \subseteq Range(state'.citations))]_vars

\* C8 witness: retrieve_docs has cited chunks and execute_sql has added the
\* tables to them.
C8_Witness ==
  /\ Executed
  /\ TableNames \subseteq Range(state.citations)
  /\ Range(state.citations) \ TableNames # {}

C10_DocsRecordCitesChunks ==
  [][(Ended /\ state.route = "rag" /\ Len(state.retrieved_docs) > 0
        /\ Len(results') = Len(results) + 1)
       => LET record == results'[Len(results')]
          IN /\ record.citations # <<>>
             /\ Range(record.citations)
                  \subseteq {state.retrieved_docs[i].id : i \in 1..Len(state.retrieved_docs)}
             /\ record.sql = EmptySql]_vars

\* C11: the question "Top 3 products by total revenue all-time" is routed
\* to the query-only route, retrieval never runs in its request, and when
\* its workflow ends the citations hold table names only.
C11_Top3IsQueryOnly ==
  state.question.top3 =>
    /\ Count("route_question") > 0 => state.route = "sql"
    /\ Count("retrieve_docs") = 0
    /\ Ended => Range(state.citations) \subseteq TableNames

\* C11 witness: the request for that question has ended after a query that
\* ran, with the table names cited.
C11_Witness ==
  /\ Ended
  /\ state.question.top3
  /\ steps = <<"route_question", "generate_sql", "execute_sql", "synthesize_answer">>
  /\ state.citations = <<"Orders", "Customers">>

\* C12: for a hybrid question that names a date range, plan_constraints'
\* output has non-null start_date and end_date, the generate_sql that
\* follows gets exactly that mapping from the request context, and the
\* query it writes is bounded by exactly those two dates.
C12_NamedRangeReachesQuery ==
  (state.route = "hybrid" /\ ReadsDates(state.question) /\ Count("plan_constraints") > 0)
    => LET output == PlannedConstraints(state.question)
           received == Get(state, "constraints", EmptyDict)
       IN /\ {"start_date", "end_date"} \subseteq DOMAIN output
          /\ output["start_date"] # NoneVal
          /\ output["end_date"] # NoneVal
          /\ DOMAIN received = DOMAIN output
          /\ \A key \in DOMAIN output : received[key] = output[key]
          /\ pc # "raised"
          /\ Count("generate_sql") > 0
               => /\ Len(state.sql_query) = 3
                  /\ state.sql_query[2] = output["start_date"]
                  /\ state.sql_query[3] = output["end_date"]

\* C17: whatever mapping plan_constraints can return is in the context
\* (the empty one and those without dates included), generate_sql returns
\* a query and does not raise.
C17_MissingKeyIsNoConstraint ==
  unit.op = "generate_sql" => ~unit.raised

\* C19: when generate_sql fails, the step leaves error set on the context
\* and the repair loop is the next stage; the failure is not raised out of
\* the workflow.
C19_GeneratorFailureIsRepaired ==
  [][(pc = "generate_sql" /\ pc' # "execute_sql")
       => /\ pc' = "repair_loop"
          /\ Truthy(state'.error)]_vars

\* C18: plan_constraints runs only in requests routed hybrid, after
\* retrieve_docs has run and before the first generate_sql of the request.
C18_PlanOnlyInHybridAfterRetrieval ==
  \A i \in 1..Len(steps) :
    steps[i] = "plan_constraints"
      => /\ state.route = "hybrid"
         /\ \E j \in 1..(i - 1) : steps[j] = "retrieve_docs"
         /\ \A j \in 1..(i - 1) : steps[j] # "generate_sql"

\* C18 witness: a hybrid request in which plan_constraints ran after
\* retrieve_docs and generate_sql ran after it.
C18_Witness ==
  /\ state.route = "hybrid"
  /\ Len(steps) >= 4
  /\ steps[2] = "retrieve_docs"
  /\ steps[3] = "plan_constraints"
  /\ steps[4] = "generate_sql"

\* the tables of the store, and the two kinds of citation
StoreTables == {"Orders", "Customers", "Products", "Order Details", "Categories"}
CitedTables == Range(state.citations) \cap StoreTables
CitedChunks == Range(state.citations) \ StoreTables
QueryRan == Executed /\ ~Truthy(state.sql_result.error)

\* C20: when the workflow has ended, every table cited is read by the
\* query that was executed, every table that query reads is cited, and
\* chunk ids are cited only if retrieve_docs ran.
C20_CitationsMatchWhatWasRead ==
  Ended =>
    /\ CitedTables \subseteq (IF QueryRan THEN TablesRead(state.sql_query) ELSE {})
    /\ QueryRan => TablesRead(state.sql_query) \subseteq CitedTables
    /\ CitedChunks # {} => Count("retrieve_docs") > 0

\* C13: execute_query never raises: whatever the statement and whatever
\* goes wrong (a malformed statement, a rejected one, a connection that
\* cannot be opened, a statement without a result set), it returns a
\* result with error set and with columns and rows empty.
C13_ExecuteNeverRaises ==
  (unit.op = "execute_query" /\ unit.event # "runs")
    => /\ ~unit.call.raised
       /\ Truthy(unit.call.result.error)
       /\ unit.call.result.columns = <<>>
       /\ unit.call.result.rows = <<>>

\* the index of a returned chunk in the retriever's documents
IndexOf(documents, chunk) == CHOOSE i \in 1..Len(documents) : documents[i].id = chunk.id

\* chunk a is ranked before chunk b: higher score, or equal score and
\* earlier in the documents
RankedBefore(documents, a, b) ==
  \/ a.score > b.score
  \/ a.score = b.score /\ IndexOf(documents, a) < IndexOf(documents, b)

\* C14: retrieve returns its chunks by descending score, chunks of equal
\* score in the order of their indices; when chunks tie, the one with the
\* smaller index is ranked first and is the one selected at the cut-off.
C14_TiesInInsertionOrder ==
  (unit.op = "retrieve" /\ ~unit.raised)
    => LET documents == unit.retriever.documents
           result == unit.result
           selected == {IndexOf(documents, result[j]) : j \in 1..Len(result)}
       IN /\ \A j \in 1..(Len(result) - 1) : RankedBefore(documents, result[j], result[j + 1])
          /\ \A i \in selected, o \in (1..Len(documents)) \ selected :
               unit.scores[i] = unit.scores[o] => i < o

\* C15: a retriever built over a directory with no chunk is built (empty
\* documents, no ranking object), and retrieve on it returns the empty
\* sequence for every query and every k, without raising.
C15_EmptyIndexRetrievesNothing ==
  /\ (unit.op \in {"build", "retrieve"} /\ unit.retriever.documents = <<>>)
       => unit.retriever.bm25 = NoneVal
  /\ (unit.op = "retrieve" /\ unit.retriever.documents = <<>>)
       => (~unit.raised /\ unit.result = <<>>)

\* C15 witness: retrieve was called with k > 0 on a retriever built over a
\* directory with no chunk.
C15_Witness ==
  /\ unit.op = "retrieve"
  /\ unit.retriever.documents = <<>>
  /\ unit.k > 0
  /\ unit.result = <<>>

\* C16: when the edge function after retrieve_docs is reached with a route
\* other than rag or hybrid, the engine raises an orchestration error; the
\* workflow does not end there.
C16_UnmatchedEdgeValueRaises ==
  (unit.op = "post_retrieve" /\ unit.context.route \notin {"rag", "hybrid"})
    => unit.next = "raised"

\* the chunk ids of a result, in its order
Ids(result) == [j \in 1..Len(result) |-> result[j].id]

Min(a, b) == IF a <= b THEN a ELSE b

\* C24: for every k >= 0 and every retriever of n chunks, retrieve returns
\* exactly min(k, n) chunks; with k = 0 it returns the empty sequence.
C24_RetrieveReturnsMinKN ==
  (unit.op = "retrieve" /\ ~unit.raised)
    => Len(unit.result) = Min(unit.k, Len(unit.retriever.documents))

\* the stages that lie on a cycle of the graph
CycleStages ==
  {stage \in {"route_question", "retrieve_docs", "plan_constraints", "generate_sql",
              "execute_sql", "repair_loop", "synthesize_answer"} :
     stage \in Closure(Successors(stage))}

\* C22: the repair loop generate_sql -> execute_sql -> repair_loop ->
\* generate_sql is the only cycle of the graph, and in every request
\* route_question, retrieve_docs, plan_constraints and synthesize_answer
\* each run at most once.
C22_OnlyTheRepairLoopCycles ==
  /\ CycleStages = {"generate_sql", "execute_sql", "repair_loop"}
  /\ \A stage \in {"route_question", "retrieve_docs", "plan_constraints",
                   "synthesize_answer"} : Count(stage) <= 1

\* C22 witness: a request has ended in which each of the four stages ran,
\* once.
C22_Witness ==
  /\ Ended
  /\ \A stage \in {"route_question", "retrieve_docs", "plan_constraints",
                   "synthesize_answer"} : Count(stage) = 1

\* C23: after every run of execute_sql that returns, a non-null error of
\* the result is copied into the context's error and the next stage is
\* repair_loop, and with a null error the next stage is synthesize_answer;
\* so synthesize_answer is never reached with a result whose error is set.
C23_ExecuteRoutesOnError ==
  [][/\ (pc = "execute_sql" /\ pc' # "raised")
          => IF Truthy(state'.sql_result.error)
             THEN state'.error = state'.sql_result.error /\ pc' = "repair_loop"
             ELSE pc' = "synthesize_answer"
     /\ (pc' = "synthesize_answer" /\ state'.sql_result # NoResult)
          => ~Truthy(state'.sql_result.error)]_vars

\* C23 witness: the query was rejected, its error is in the context and
\* repair_loop is the next stage.
C23_Witness ==
  /\ pc = "repair_loop"
  /\ steps[Len(steps)] = "execute_sql"
  /\ Truthy(state.sql_result.error)
  /\ state.error = state.sql_result.error

\* C25: when indexing or scoring throws inside retrieve_docs, the stage
\* does not raise: it sets retrieved_docs and citations to empty sequences
\* and the next stage is the one the route selects (synthesize_answer for
\* rag, plan_constraints for hybrid).
C25_RetrievalFailureDegrades ==
  (unit.op = "retrieve_docs" /\ unit.failure # "none")
    => /\ ~unit.raised
       /\ unit.update.retrieved_docs = <<>>
       /\ unit.update.citations = <<>>
       /\ unit.update.route = unit.context.route
       /\ unit.next = IF unit.context.route = "rag" THEN "synthesize_answer"
                      ELSE "plan_constraints"

\* C25 witness: scoring threw over a directory that holds chunks, in a
\* hybrid request, and plan_constraints is the next stage.
C25_Witness ==
  /\ unit.op = "retrieve_docs"
  /\ unit.failure = "scoring"
  /\ unit.context.route = "hybrid"
  /\ unit.update.retrieved_docs = <<>>
  /\ unit.next = "plan_constraints"

\* C26: when a request's workflow has ended with final_answer written (by
\* synthesize_answer or by the exhausted repair), the record of that
\* request has that final_answer and the workflow's citations, not a
\* failure placeholder.
C26_RecordCarriesWorkflowAnswer ==
  [][(Ended /\ state.final_answer # NoneVal /\ Len(results') = Len(results) + 1)
       => LET record == results'[Len(results')]
          IN /\ record.final_answer = state.final_answer
             /\ record.citations = state.citations]_vars

\* C27: a run of execute_sql that fails leaves citations, route,
\* repair_count and final_answer as they were (it writes sql_result and
\* error only), so the citations change in execute_sql only when the query
\* ran.
C27_FailedExecuteFrame ==
  [][pc = "execute_sql"
       => /\ (pc' = "raised" \/ Truthy(state'.sql_result.error))
               => /\ state'.citations = state.citations
                  /\ state'.route = state.route
                  /\ state'.repair_count = state.repair_count
                  /\ state'.final_answer = state.final_answer
                  /\ state'.question = state.question
                  /\ state'.sql_query = state.sql_query
                  /\ state'.retrieved_docs = state.retrieved_docs
          /\ state'.citations # state.citations
               => (pc' # "raised" /\ ~Truthy(state'.sql_result.error))]_vars

\* C27 witness: the query of a request that cites chunks was rejected, and
\* the citations are the chunk ids alone.
C27_Witness ==
  /\ pc = "repair_loop"
  /\ steps[Len(steps)] = "execute_sql"
  /\ Truthy(state.sql_result.error)
  /\ state.citations # <<>>
  /\ Range(state.citations) \cap TableNames = {}

====
